---- MODULE Spec2Model ----
(***************************************************************************)
(* Model of termgl: the UI state machine (src/ui/screen.js), the Control   *)
(* primitive (src/ui/components/control.js), the Button widget and the     *)
(* double-buffered Terminal (src/terminal/terminal.js).                    *)
(*                                                                         *)
(* One dispatch of an event runs to completion; the model follows it step  *)
(* by step (pc) so that properties of a single render iteration can be     *)
(* stated.  The application is a fixed catalogue of three screens, each    *)
(* with a render hook that calls widgets of the library.                   *)
(***************************************************************************)
EXTENDS Integers, Sequences, FiniteSets, TLC

\* ------------------------------------------------------------------ bounds
GridW == 3          \* terminal.width  (cells)
GridH == 1          \* terminal.height (cells)
CellPx == 2         \* font.charWidth * scale = font.charHeight * scale (pixels per cell)
MaxOps == 4         \* calls a custom render hook makes on the UI in one iteration
MaxLeft == 1        \* entries left on the stacks with which the host renders again
MaxPuts == 3        \* puts the host makes on the terminal between two renders

\* ------------------------------------------------------- program constants
MAX_RENDERS_PER_FRAME == 10

TRANSPARENT == <<0, 0, 0, 0>>
WHITE == <<255, 255, 255, 255>>
RED == <<255, 0, 0, 255>>
GREEN == <<0, 255, 0, 255>>
BLUE == <<0, 0, 255, 255>>
GREY == <<102, 102, 102, 255>>
BLACK == <<0, 0, 0, 255>>
DARK_GREY == <<34, 34, 34, 136>>

DefaultTheme ==
  [button |-> [default |-> WHITE, hover |-> GREEN, active |-> RED,
               focus |-> BLUE, disabled |-> GREY],
   input |-> [bg |-> DARK_GREY],
   inputPlaceholder |-> [fg |-> GREY],
   inputCaret |-> [fg |-> BLACK, bg |-> WHITE]]

\* JavaScript null / undefined for id-valued fields
Null == "null"
Undefined == "undefined"

\* null / undefined for rect-valued fields (UI.box, UI.clip)
NoRect == [x |-> 0, y |-> 0, width |-> -1, height |-> -1]

\* ----------------------------------------------------------------- events
NoEvent == [type |-> "none", key |-> "", shiftKey |-> FALSE,
            clientX |-> 0, clientY |-> 0, button |-> 0, defaultPrevented |-> FALSE]

MouseMoves ==
  { [NoEvent EXCEPT !.type = "mousemove", !.clientX = cx, !.clientY = cy] :
      cx \in 0..(GridW * CellPx - 1), cy \in 0..(GridH * CellPx - 1) }

MouseButtons ==
  { [NoEvent EXCEPT !.type = t] : t \in {"mousedown", "mouseup"} }

KeyEvents ==
  { [NoEvent EXCEPT !.type = "keydown", !.key = "Enter"],
    [NoEvent EXCEPT !.type = "keyup", !.key = "Enter"],
    [NoEvent EXCEPT !.type = "keydown", !.key = "Tab"],
    [NoEvent EXCEPT !.type = "keydown", !.key = "Tab", !.shiftKey = TRUE] }

Events == MouseMoves \cup MouseButtons \cup KeyEvents

\* the event as render hooks and widgets read it: of a mouse event they use
\* the type only (the pointer cell is read from UI.mouse)
Seen(e) == [e EXCEPT !.clientX = 0, !.clientY = 0]

IsMouseEvent(e) == e.type \in {"mousemove", "mousedown", "mouseup"}
IsKeyboardEvent(e) == e.type \in {"keydown", "keyup"}

\* ------------------------------------------------------------ application
\* The screens of the application and the widgets their render hooks call.
ScreenNames == <<"Base", "Dialog", "Top">>

\* Button({ id, label, x, y, width, height }); label is "" or one character,
\* given by its character code (0 for the empty label)
Button(id, label, x, y, w, h) ==
  [kind |-> "button", id |-> id, label |-> label, x |-> x, y |-> y, width |-> w, height |-> h]

Spinner == [kind |-> "spinner", id |-> "", label |-> 33, x |-> 0, y |-> 0, width |-> 0, height |-> 0]

\* Input({ id, value: "", x, y }): an empty text field, one cell wide
Input(id, x, y) ==
  [kind |-> "input", id |-> id, label |-> 0, x |-> x, y |-> y, width |-> 1, height |-> 1]

Hook(name) ==
  CASE name = "Base"   -> << Button("a", 0, 0, 0, 2, 1) >>
    [] name = "Dialog" -> << Button("b", 0, 1, 0, 2, 1), Spinner >>
    [] name = "Top"    -> << Button("c", 0, 2, 0, 1, 1) >>
    [] name = "Panel"  -> << >>
    [] name = "Form"   -> << Input("i", 0, 0), Button("s", 0, 1, 0, 2, 1) >>
    [] name = "Main"   -> << Button("m", 77, 0, 0, 2, 1) >>
    [] name = "Menu"   -> << Button("n", 78, 0, 0, 1, 1) >>

ControlIds == {"a", "b", "c"}

\* A screen whose render hook is custom code: it calls the box, clip and put
\* operations of the UI itself (as Frame and Scroll do), in any order, with
\* these rects and cells.
Panel == [name |-> "Panel", isModal |-> FALSE, isOpaque |-> FALSE]

PanelRects ==
  { [x |-> 1, y |-> 0, width |-> 1, height |-> 1],
    [x |-> 0, y |-> 0, width |-> 2, height |-> 1] }

PanelCells == { [x |-> 0, y |-> 0], [x |-> 1, y |-> 0] }

\* the rects a hook asks isMouseOver about: those above, one without width
\* and one without height
QueryRects ==
  PanelRects \cup { [x |-> 1, y |-> 0, width |-> 0, height |-> 1],
                    [x |-> 0, y |-> 0, width |-> 2, height |-> 0] }

PanelChar == 35

\* A screen with a text field and a button beside it.
Form == [name |-> "Form", isModal |-> FALSE, isOpaque |-> FALSE]

\* A screen with a labelled button, and a modal screen the application
\* opens over it while it runs; the label of its button starts on the same
\* cell.
Main == [name |-> "Main", isModal |-> FALSE, isOpaque |-> FALSE]
Menu == [name |-> "Menu", isModal |-> TRUE, isOpaque |-> FALSE]

\* the controls whose `disabled` property the application changes over time
Disableable == {"b"}

\* ------------------------------------------------------------------ state
VARIABLES
  \* UI fields
  screens, boundingBoxStack, box, clipRectStack, clip, idStack, currentId,
  isModal, event, focusableControlIds, focus, hover, active, mouse,
  invalidated, afterRenderCallbacks, disabled,
  \* Terminal fields
  frontBuffer, backBuffer,
  \* the application: has it shown its first frame?
  started,
  \* position of the running dispatch / render
  pc, caller, i, si, wi,
  \* observations of the run (history)
  passes, flushes, renders, hookLog, ctlLog, markDrawn, warnings, threw, focusOp, focusFrom,
  \* has a widget stopped the event in this call of render()?
  stopped,
  \* the last call a custom hook made in this iteration with the stack depths
  \* before it, the depths its iteration started with and the lowest box depth
  \* it reached; and the relative rect each box of the stack was pushed with
  hookObs, pushArgs,
  \* what the WebGL canvas shows in each cell, and the draw of the last
  \* Terminal.render()
  canvas, lastDraw,
  \* the puts the host made on the terminal itself since the last
  \* Terminal.render()
  hostPuts

uiVars == <<screens, boundingBoxStack, box, clipRectStack, clip, idStack, currentId,
            isModal, event, focusableControlIds, focus, hover, active, mouse,
            invalidated, afterRenderCallbacks, disabled>>
termVars == <<frontBuffer, backBuffer>>
posVars == <<pc, caller, i, si, wi>>
histVars == <<passes, flushes, renders, hookLog, ctlLog, markDrawn, warnings, threw, focusOp, focusFrom>>
obsVars == <<stopped, hookObs, pushArgs>>
frameVars == <<canvas, lastDraw, hostPuts>>
vars == <<uiVars, termVars, started, posVars, histVars, obsVars, frameVars>>

\* (mutant) the left and top edge of the box do not count
isPointInsideStrict(x, y, x0, y0, x1, y1) ==
  x > x0 /\ y > y0 /\ x <= x1 /\ y <= y1

\* ------------------------------------------------------------------ utils
isPointInside(x, y, x0, y0, x1, y1) ==
  x >= x0 /\ y >= y0 /\ x <= x1 /\ y <= y1

isPointInRect(x, y, rect) ==
  x >= rect.x /\ y >= rect.y /\ x < rect.x + rect.width /\ y < rect.y + rect.height

\* Array.prototype.indexOf (0-based, -1 when absent)
RECURSIVE IndexFrom(_, _, _)
IndexFrom(list, v, k) ==
  IF k > Len(list) THEN -1
  ELSE IF list[k] = v THEN k - 1
  ELSE IndexFrom(list, v, k + 1)

indexOf(list, v) == IndexFrom(list, v, 1)

\* array[k] for a 0-based k; out of range reads give undefined
ArrayGet(list, k) == IF k >= 0 /\ k < Len(list) THEN list[k + 1] ELSE Undefined

\* Array.prototype.join("/"): null and undefined elements give ""
Str(v) == IF v \in {Null, Undefined} THEN "" ELSE v

RECURSIVE Join(_)
Join(s) ==
  IF Len(s) = 0 THEN ""
  ELSE IF Len(s) = 1 THEN Str(s[1])
  ELSE Str(s[1]) \o "/" \o Join(Tail(s))

\* --------------------------------------------------------------- Terminal
Cells == 0..(GridW * GridH - 1)
ZeroCell == [char |-> 0, fg |-> TRANSPARENT, bg |-> TRANSPARENT, layer |-> 0]
EmptyBuffer == [c \in Cells |-> ZeroCell]

\* (mutant) a put on the stored layer is ignored: the first writer wins ties
BufferPutStrict(buf, x, y, code, fg, bg, layer) ==
  LET index == x + y * GridW IN
  IF x >= 0 /\ y >= 0 /\ x < GridW /\ y < GridH
  THEN IF layer > buf[index].layer
       THEN [buf EXCEPT ![index] =
              [char |-> code, fg |-> fg,
               bg |-> IF bg # TRANSPARENT THEN bg ELSE buf[index].bg,
               layer |-> layer]]
       ELSE buf
  ELSE buf

\* (mutant) an accepted put stores its background whatever it is
BufferPutAnyBg(buf, x, y, code, fg, bg, layer) ==
  LET index == x + y * GridW IN
  IF x >= 0 /\ y >= 0 /\ x < GridW /\ y < GridH
  THEN IF layer >= buf[index].layer
       THEN [buf EXCEPT ![index] =
              [char |-> code, fg |-> fg, bg |-> bg, layer |-> layer]]
       ELSE buf
  ELSE buf

\* Buffer.put; bg = TRANSPARENT stands for a falsy background (0 or omitted)
BufferPut(buf, x, y, code, fg, bg, layer) ==
  LET index == x + y * GridW IN
  IF x >= 0 /\ y >= 0 /\ x < GridW /\ y < GridH
  THEN IF layer >= buf[index].layer
       THEN [buf EXCEPT ![index] =
              [char |-> code, fg |-> fg,
               bg |-> IF bg # TRANSPARENT THEN bg ELSE buf[index].bg,
               layer |-> layer]]
       ELSE buf
  ELSE buf

\* Buffer.clear
BufferClear(buf) == [c \in Cells |-> ZeroCell]

\* the part of a cell that Terminal.render() compares and draws
Shown(cell) == [char |-> cell.char, fg |-> cell.fg, bg |-> cell.bg]

\* a canvas on which nothing has been drawn
EmptyCanvas == [c \in Cells |-> Shown(ZeroCell)]

\* no draw: the vertex count of a render and whether it called gl.drawArrays
NoDraw == [vertexCount |-> 0, drawArrays |-> FALSE]

\* (mutant) a cell whose layer alone differs is drawn again
TerminalRenderLayers(front, back, cv) ==
  LET changed == {c \in Cells : back[c] # front[c]}
      vertexCount == 6 * Cardinality(changed)
  IN [frontBuffer |-> back,
      backBuffer |-> BufferClear(front),
      draw |-> [vertexCount |-> vertexCount, drawArrays |-> vertexCount > 0],
      canvas |-> IF vertexCount > 0
                 THEN [c \in Cells |-> IF c \in changed THEN Shown(back[c]) ELSE cv[c]]
                 ELSE cv]

\* (mutant) the buffers are swapped and the new back buffer is not cleared
TerminalRenderNoClear(front, back, cv) ==
  LET changed == {c \in Cells : ~(/\ back[c].char = front[c].char
                                   /\ back[c].fg = front[c].fg
                                   /\ back[c].bg = front[c].bg)}
      vertexCount == 6 * Cardinality(changed)
  IN [frontBuffer |-> back,
      backBuffer |-> front,
      draw |-> [vertexCount |-> vertexCount, drawArrays |-> vertexCount > 0],
      canvas |-> IF vertexCount > 0
                 THEN [c \in Cells |-> IF c \in changed THEN Shown(back[c]) ELSE cv[c]]
                 ELSE cv]

\* Terminal.render() with a font: six vertices for every cell whose char,
\* foreground or background differs between the buffers, one draw call if
\* there are any, then the swap and the clear of the new back buffer
TerminalRender(front, back, cv) ==
  LET changed == {c \in Cells : ~(/\ back[c].char = front[c].char
                                   /\ back[c].fg = front[c].fg
                                   /\ back[c].bg = front[c].bg)}
      vertexCount == 6 * Cardinality(changed)
  IN [frontBuffer |-> back,
      backBuffer |-> BufferClear(front),
      draw |-> [vertexCount |-> vertexCount, drawArrays |-> vertexCount > 0],
      canvas |-> IF vertexCount > 0
                 THEN [c \in Cells |-> IF c \in changed THEN Shown(back[c]) ELSE cv[c]]
                 ELSE cv]

\* Terminal.screenToGrid / canvasToGrid followed by Math.floor
screenToGridFloor(px) == px \div CellPx

\* no call of a custom hook observed
NoObs == [op |-> "none", x |-> 0, y |-> 0, boxes |-> 0, clips |-> 0, ids |-> 0,
          baseBoxes |-> 0, baseClips |-> 0, lowBoxes |-> 0,
          width |-> 0, height |-> 0, result |-> "none"]

\* --------------------------------------------------------------- UI: init
InitMouse == [x |-> -1, y |-> -1, buttons |-> {}, down |-> FALSE]

Init ==
  /\ screens = <<>>
  /\ boundingBoxStack = <<>>
  /\ box = NoRect
  /\ clipRectStack = <<>>
  /\ clip = NoRect
  /\ idStack = <<>>
  /\ currentId = Null
  /\ isModal = FALSE
  /\ event = NoEvent
  /\ focusableControlIds = <<>>
  /\ focus = Null
  /\ hover = Null
  /\ active = Null
  /\ mouse = InitMouse
  /\ invalidated = FALSE
  /\ afterRenderCallbacks = <<>>
  /\ disabled = {}
  /\ frontBuffer = EmptyBuffer
  /\ backBuffer = EmptyBuffer
  /\ started = FALSE
  /\ pc = "idle"
  /\ caller = "host"
  /\ i = 0
  /\ si = 0
  /\ wi = 0
  /\ passes = 0
  /\ flushes = 0
  /\ renders = 0
  /\ hookLog = <<>>
  /\ ctlLog = <<>>
  /\ markDrawn = FALSE
  /\ warnings = {}
  /\ threw = FALSE
  /\ focusOp = "none"
  /\ focusFrom = Null
  /\ stopped = FALSE
  /\ hookObs = NoObs
  /\ pushArgs = <<>>
  /\ canvas = EmptyCanvas
  /\ lastDraw = NoDraw
  /\ hostPuts = <<>>

\* ------------------------------------------------------ UI: stack helpers
\* (mutant) a pushed rect is not offset by the current box
ComposeAbsolute(x, y, width, height, cur) ==
  [x |-> x, y |-> y, width |-> width, height |-> height]

\* the rect pushBoundingBox / pushClipRect build: relative to the current box
Compose(x, y, width, height, cur) ==
  IF cur # NoRect
  THEN [x |-> x + cur.x, y |-> y + cur.y, width |-> width, height |-> height]
  ELSE [x |-> x, y |-> y, width |-> width, height |-> height]

\* array[array.length - 1]
Top(stack) == IF Len(stack) > 0 THEN stack[Len(stack)] ELSE NoRect

Pop(stack) == SubSeq(stack, 1, Len(stack) - 1)

\* (mutant) the right and bottom edge of the rectangle do not count
isMouseOverHalfOpen(x, y, width, height, b, m) ==
  LET x0 == b.x + x
      y0 == b.y + y
      x1 == x0 + width - 1
      y1 == y0 + height - 1
  IN m.x >= x0 /\ m.y >= y0 /\ m.x < x1 /\ m.y < y1

\* UI.isMouseOver(x, y, width, height) against box b and pointer m
isMouseOver(x, y, width, height, b, m) ==
  LET x0 == b.x + x
      y0 == b.y + y
      x1 == x0 + width - 1
      y1 == y0 + height - 1
  IN isPointInside(m.x, m.y, x0, y0, x1, y1)

\* UI.isMouseDown(button): this.mouse.buttons is a Set, which has no method
\* get, so the call raises a TypeError whatever the buttons are
isMouseDown(m, button) == [throws |-> TRUE, value |-> "none"]

\* UI.keys: the object is created empty and no handler ever writes to it
keys == [k \in {} |-> TRUE]

\* UI.isKeyDown(key): the entry of this.keys, undefined when there is none
isKeyDown(key) == IF key \in DOMAIN keys THEN keys[key] ELSE Undefined

\* a JavaScript boolean as it is observed
Bool(b) == IF b THEN "true" ELSE "false"

\* UI.isCellVisible(x, y) against the current clip rect c
isCellVisible(x, y, c) ==
  IF c # NoRect /\ ~isPointInRect(x, y, c) THEN FALSE ELSE TRUE

\* UI.put: transform by box b, test every rect of the clip stack, forward to
\* Terminal.put (layer defaults to 0 there)
RECURSIVE InAllClips(_, _, _)
InAllClips(x, y, stack) ==
  IF Len(stack) = 0 THEN TRUE
  ELSE isPointInRect(x, y, Head(stack)) /\ InAllClips(x, y, Tail(stack))

\* (mutant) UI.put tests the current clip rect only
putTopClipOnly(buf, b, clips, x, y, code, fg, bg, layer) ==
  LET ax == b.x + x
      ay == b.y + y
  IN IF Len(clips) = 0 \/ isPointInRect(ax, ay, clips[Len(clips)])
     THEN BufferPut(buf, ax, ay, code, fg, bg, layer)
     ELSE buf

put(buf, b, clips, x, y, code, fg, bg, layer) ==
  LET ax == b.x + x
      ay == b.y + y
  IN IF InAllClips(ax, ay, clips)
     THEN BufferPut(buf, ax, ay, code, fg, bg, layer)
     ELSE buf

\* UI.focusNextControl / UI.focusPreviousControl: the new focus
focusNextControl(list, f) ==
  LET index == indexOf(list, f)
      end == Len(list) - 1
      newIndex == IF index = end THEN 0 ELSE index + 1
  IN ArrayGet(list, newIndex)

\* (mutant) stepping back from the first entry does not wrap
focusPreviousControlNoWrap(list, f) ==
  ArrayGet(list, indexOf(list, f) - 1)

focusPreviousControl(list, f) ==
  LET index == indexOf(list, f)
      end == Len(list)
      newIndex == (IF index # 0 THEN index ELSE end) - 1
  IN ArrayGet(list, newIndex)

\* (mutant) a move inside the stored cell is not suppressed
initialEventHandlerNoSuppress(e, m) ==
  IF e.type = "mousemove"
  THEN [render |-> TRUE,
        mouse |-> [m EXCEPT !.x = screenToGridFloor(e.clientX),
                            !.y = screenToGridFloor(e.clientY)]]
  ELSE IF e.type = "mousedown"
  THEN [render |-> TRUE,
        mouse |-> [m EXCEPT !.buttons = @ \cup {e.button}, !.down = TRUE]]
  ELSE IF e.type = "mouseup"
  THEN [render |-> TRUE,
        mouse |-> [m EXCEPT !.buttons = @ \ {e.button}, !.down = FALSE]]
  ELSE [render |-> TRUE, mouse |-> m]

\* UI.initialEventHandler: the pointer state it leaves and its return value
initialEventHandler(e, m) ==
  IF e.type = "mousemove"
  THEN LET x == screenToGridFloor(e.clientX)
           y == screenToGridFloor(e.clientY)
       IN IF x = m.x /\ y = m.y
          THEN [render |-> FALSE, mouse |-> m]
          ELSE [render |-> TRUE, mouse |-> [m EXCEPT !.x = x, !.y = y]]
  ELSE IF e.type = "mousedown"
  THEN [render |-> TRUE,
        mouse |-> [m EXCEPT !.buttons = @ \cup {e.button}, !.down = TRUE]]
  ELSE IF e.type = "mouseup"
  THEN [render |-> TRUE,
        mouse |-> [m EXCEPT !.buttons = @ \ {e.button}, !.down = FALSE]]
  ELSE [render |-> TRUE, mouse |-> m]

\* (mutant) the event stays current
stopEventPropagationKept(ev) == ev

\* UI.stopEventPropagation: the UI.event it leaves
stopEventPropagation(ev) == NoEvent

\* UI.stopEventDefault: preventDefault() on a current event, then
\* stopEventPropagation
stopEventDefault(ev) ==
  stopEventPropagation(IF ev # NoEvent THEN [ev EXCEPT !.defaultPrevented = TRUE] ELSE ev)

\* Terminal.clearDrawingBuffer: the Terminal class defines no such method, so
\* the call `this.terminal.clearDrawingBuffer()` raises a TypeError
clearDrawingBuffer == [throws |-> TRUE]

\* (mutant) a control does not take hover from another control
ControlHoverFirst(id, over, hov) ==
  IF over THEN (IF hov # Null /\ hov # id THEN hov ELSE id)
  ELSE IF hov = id THEN Null
  ELSE hov

\* Control: the hover it leaves (authoritative for its own id only)
ControlHover(id, over, hov) ==
  IF over THEN id
  ELSE IF hov = id THEN Null
  ELSE hov

\* (mutant) any mouse event while hovered claims active and focus
ControlPressAnyMouse(id, hov, e) ==
  hov = id /\ IsMouseEvent(e)

\* Control: a press while hovered claims active and focus
ControlPress(id, hov, e) ==
  hov = id /\ IsMouseEvent(e) /\ e.type = "mousedown"

\* (mutant) only the key-up of Enter clears active
ControlReleaseKeyOnly(id, act, e) ==
  act = id /\ IsKeyboardEvent(e) /\ e.type = "keyup" /\ e.key = "Enter"

\* Control: a release, or the key-up of Enter, while active clears active
ControlRelease(id, act, e) ==
  \/ act = id /\ IsMouseEvent(e) /\ e.type = "mouseup"
  \/ act = id /\ IsKeyboardEvent(e) /\ e.type = "keyup" /\ e.key = "Enter"

\* Control: the key-down of Enter while focused claims active
ControlEnterDown(id, foc, e) ==
  foc = id /\ IsKeyboardEvent(e) /\ e.type = "keydown" /\ e.key = "Enter"

\* Control: the key-up of Enter while (still) active sets active again
ControlEnterUp(id, act, e) ==
  act = id /\ IsKeyboardEvent(e) /\ e.type = "keyup" /\ e.key = "Enter"

\* the screen loop of UI.render(): the index it goes on with after screen
\* number idx (0 leaves the loop), and the modal flag it leaves
\* (mutant) an opaque screen does not end the loop
NextScreenNoBreak(s, idx) == idx - 1

NextScreen(s, idx) == IF s.isOpaque THEN 0 ELSE idx - 1

\* (mutant) a modal screen does not set the flag
ModalAfterNever(s, m) == m

ModalAfter(s, m) == IF s.isOpaque THEN m ELSE IF s.isModal THEN TRUE ELSE m

\* UI.popBoundingBox: whether it throws, and the stack it leaves
popBoundingBox(stack) ==
  IF Len(stack) > 0
  THEN [throws |-> FALSE, stack |-> Pop(stack)]
  ELSE [throws |-> TRUE, stack |-> stack]

\* UI.popClipRect: Array.prototype.pop on an empty array does nothing
popClipRect(stack) == [throws |-> FALSE, stack |-> Pop(stack)]

\* (mutant) the missing method is tolerated and the loop tests no bound
RenderLoopUnbounded(inv, iv) ==
  IF inv = FALSE THEN "break" ELSE "repeat"

\* the loop of UI.render() after an iteration that left `inv` in
\* UI.invalidated, with loop variable iv
RenderLoop(inv, iv) ==
  IF inv = FALSE THEN "break"
  ELSE IF clearDrawingBuffer.throws THEN "throw"
  ELSE IF iv + 1 <= MAX_RENDERS_PER_FRAME THEN "repeat"
  ELSE "exhausted"

\* Button: the style Object.assign leaves (later sources win)
ButtonFg(isHovered, isFocused, isActive, isDisabled) ==
  IF isDisabled THEN DefaultTheme.button.disabled
  ELSE IF isActive THEN DefaultTheme.button.active
  ELSE IF isFocused THEN DefaultTheme.button.focus
  ELSE IF isHovered THEN DefaultTheme.button.hover
  ELSE DefaultTheme.button.default

\* ------------------------------------------------------------ host actions
\* entry of UI.render(): the loop variable and the observations of this call
StartRender(c) ==
  /\ pc' = "iter"
  /\ caller' = c
  /\ i' = 1
  /\ passes' = 0
  /\ flushes' = 0
  /\ threw' = FALSE
  /\ stopped' = FALSE

\* The application builds its screen stack and sets the properties of its
\* controls before its first frame.
pushScreen ==
  /\ pc = "idle"
  /\ ~started
  /\ Len(screens) < Len(ScreenNames)
  /\ \E m \in BOOLEAN, o \in BOOLEAN :
       /\ (ScreenNames[Len(screens) + 1] # "Dialog" => ~m /\ ~o)
       /\ screens' = Append(screens,
            [name |-> ScreenNames[Len(screens) + 1], isModal |-> m, isOpaque |-> o])
  /\ UNCHANGED <<boundingBoxStack, box, clipRectStack, clip, idStack, currentId,
                 isModal, event, focusableControlIds, focus, hover, active, mouse,
                 invalidated, afterRenderCallbacks, disabled>>
  /\ UNCHANGED <<termVars, started, posVars, histVars, obsVars>>
  /\ UNCHANGED frameVars

popScreen ==
  /\ pc = "idle"
  /\ ~started
  /\ Len(screens) > 0
  /\ screens' = Pop(screens)
  /\ UNCHANGED <<boundingBoxStack, box, clipRectStack, clip, idStack, currentId,
                 isModal, event, focusableControlIds, focus, hover, active, mouse,
                 invalidated, afterRenderCallbacks, disabled>>
  /\ UNCHANGED <<termVars, started, posVars, histVars, obsVars>>
  /\ UNCHANGED frameVars

\* the application enables or disables one of its controls between events
SetDisabled ==
  /\ pc = "idle"
  /\ ~started
  /\ \E id \in Disableable :
       disabled' = IF id \in disabled THEN disabled \ {id} ELSE disabled \cup {id}
  /\ UNCHANGED <<screens, boundingBoxStack, box, clipRectStack, clip, idStack, currentId,
                 isModal, event, focusableControlIds, focus, hover, active, mouse,
                 invalidated, afterRenderCallbacks>>
  /\ UNCHANGED <<termVars, started, posVars, histVars, obsVars>>
  /\ UNCHANGED frameVars

\* UI._dispatchEvent up to and including the call of render()
dispatchEvent ==
  /\ pc = "idle"
  /\ \E e \in Events :
       LET r == initialEventHandler(e, mouse) IN
       /\ mouse' = r.mouse
       /\ IF r.render
          THEN /\ event' = Seen(e)
               /\ started' = TRUE
               /\ StartRender("dispatch")
               /\ renders' = 1
               /\ focusOp' = "none"
               /\ UNCHANGED <<si, wi, hookLog, ctlLog, markDrawn, warnings, focusFrom>>
               /\ UNCHANGED <<hookObs, pushArgs>>
          ELSE /\ UNCHANGED <<event, started, posVars, histVars, obsVars>>
  /\ UNCHANGED <<screens, boundingBoxStack, box, clipRectStack, clip, idStack, currentId,
                 isModal, focusableControlIds, focus, hover, active,
                 invalidated, afterRenderCallbacks, disabled>>
  /\ UNCHANGED termVars
  /\ UNCHANGED frameVars

\* the host calls UI.render() itself (first frame, forced redraw)
hostRender ==
  /\ pc = "idle"
  /\ started' = TRUE
  /\ StartRender("host")
  /\ renders' = 1
  /\ focusOp' = "none"
  /\ UNCHANGED <<si, wi, hookLog, ctlLog, markDrawn, warnings, focusFrom>>
  /\ UNCHANGED <<uiVars, termVars, hookObs, pushArgs>>
  /\ UNCHANGED frameVars

\* ------------------------------------------------------------ UI.render()
\* head of one iteration of the loop of UI.render()
IterBegin ==
  /\ pc = "iter"
  /\ afterRenderCallbacks' = <<>>
  /\ invalidated' = FALSE
  /\ LET root == Compose(0, 0, GridW, GridH, box) IN
       /\ boundingBoxStack' = Append(boundingBoxStack, root)
       /\ box' = root
  /\ focusableControlIds' = <<>>
  /\ isModal' = FALSE
  /\ si' = Len(screens)
  /\ wi' = 1
  /\ pc' = "screens"
  /\ passes' = passes + 1
  /\ hookLog' = <<>>
  /\ ctlLog' = <<>>
  /\ markDrawn' = FALSE
  /\ focusOp' = "none"
  /\ UNCHANGED <<screens, clipRectStack, clip, idStack, currentId, event, focus, hover,
                 active, mouse, disabled>>
  /\ hookObs' = [NoObs EXCEPT !.baseBoxes = Len(boundingBoxStack) + 1,
                              !.baseClips = Len(clipRectStack),
                              !.lowBoxes = Len(boundingBoxStack) + 1]
  /\ pushArgs' = Append(pushArgs, [x |-> 0, y |-> 0, width |-> GridW, height |-> GridH])
  /\ UNCHANGED <<termVars, started, caller, i, flushes, renders, warnings, threw, focusFrom,
                 stopped>>
  /\ UNCHANGED frameVars

\* the widget the running render hook is about to call
InHook == pc = "screens" /\ si >= 1 /\ wi <= Len(Hook(screens[si].name))
Widget == Hook(screens[si].name)[wi]
LogHook == IF wi = 1 THEN Append(hookLog, si) ELSE hookLog

\* Button(...): Control(...) with the Button callback
ButtonStep ==
  /\ InHook
  /\ Widget.kind = "button"
  /\ LET w == Widget
         \* ui.pushId(id); ui.pushBoundingBox(x, y, width, height); id = ui.getId()
         ids1 == Append(idStack, w.id)
         id == Join(ids1)
         b1 == Compose(w.x, w.y, w.width, w.height, box)
         bbs1 == Append(boundingBoxStack, b1)
         isDisabled == w.id \in disabled
         interactive == ~isDisabled /\ ~isModal
         over == /\ isMouseOver(0, 0, w.width, w.height, b1, mouse)
                 /\ isCellVisible(mouse.x, mouse.y, clip)
         hover1 == IF interactive THEN ControlHover(id, over, hover) ELSE hover
         hasEvent == interactive /\ event # NoEvent
         press == hasEvent /\ ControlPress(id, hover1, event)
         active1 == IF press THEN id ELSE active
         focus1 == IF press THEN id ELSE focus
         release == hasEvent /\ ControlRelease(id, active1, event)
         active2 == IF release THEN Null ELSE active1
         enterDown == hasEvent /\ ControlEnterDown(id, focus1, event)
         active3 == IF enterDown THEN id ELSE active2
         enterUp == hasEvent /\ ControlEnterUp(id, active3, event)
         active4 == IF enterUp THEN id ELSE active3
         \* callback: styles, clicked = ui.isActive(), Text({ value: label })
         fg == ButtonFg(id = hover1, id = focus1, id = active4, isDisabled)
         bbs2 == Pop(bbs1)
         ids2 == Pop(ids1)
     IN
       /\ focusableControlIds' =
            IF interactive THEN Append(focusableControlIds, id) ELSE focusableControlIds
       /\ hover' = hover1
       /\ active' = active4
       /\ focus' = focus1
       /\ backBuffer' = IF w.label # 0
                        THEN put(backBuffer, b1, clipRectStack, 0, 0, w.label, fg,
                                 TRANSPARENT, 0)
                        ELSE backBuffer
       \* ui.popBoundingBox(); ui.popId()
       /\ boundingBoxStack' = bbs2
       /\ box' = Top(bbs2)
       /\ idStack' = ids2
       /\ currentId' = Join(ids2)
       /\ ctlLog' = IF interactive
                    THEN Append(ctlLog, [id |-> id, over |-> over, type |-> event.type,
                                        key |-> event.key, wasActive |-> active = id,
                                        focusWas |-> focus, clicked |-> active4 = id])
                    ELSE ctlLog
  /\ hookLog' = LogHook
  /\ wi' = wi + 1
  /\ UNCHANGED <<screens, clipRectStack, clip, isModal, event, mouse, invalidated,
                 afterRenderCallbacks, disabled>>
  /\ UNCHANGED <<frontBuffer, started, pc, caller, i, si>>
  /\ UNCHANGED <<passes, flushes, renders, markDrawn, warnings, threw, focusOp, focusFrom>>
  /\ UNCHANGED obsVars
  /\ UNCHANGED frameVars

\* the after-render callback of Input: ui.focusNextControl(), then
\* ui.enqueueRender(), a method UI does not define, so the call raises a
\* TypeError
FocusNextThenEnqueue == "focusNext+enqueueRender"

\* Input(...): Control(...) with the Input callback, for an empty value and
\* no placeholder (one cell, the caret on it while focused)
InputStep ==
  /\ InHook
  /\ Widget.kind = "input"
  /\ LET w == Widget
         ids1 == Append(idStack, w.id)
         id == Join(ids1)
         b1 == Compose(w.x, w.y, w.width, w.height, box)
         bbs1 == Append(boundingBoxStack, b1)
         interactive == ~isModal
         over == /\ isMouseOver(0, 0, w.width, w.height, b1, mouse)
                 /\ isCellVisible(mouse.x, mouse.y, clip)
         hover1 == IF interactive THEN ControlHover(id, over, hover) ELSE hover
         hasEvent == interactive /\ event # NoEvent
         press == hasEvent /\ ControlPress(id, hover1, event)
         active1 == IF press THEN id ELSE active
         focus1 == IF press THEN id ELSE focus
         release == hasEvent /\ ControlRelease(id, active1, event)
         active2 == IF release THEN Null ELSE active1
         enterDown == hasEvent /\ ControlEnterDown(id, focus1, event)
         active3 == IF enterDown THEN id ELSE active2
         enterUp == hasEvent /\ ControlEnterUp(id, active3, event)
         active4 == IF enterUp THEN id ELSE active3
         \* callback: the key-down of Enter on the focused field queues the
         \* callback, prevents the default and stops the event; Tab is not a
         \* valid key and passes
         isFocused == id = focus1
         enter == /\ isFocused
                  /\ IsKeyboardEvent(event) /\ event.type = "keydown"
                  /\ event.key = "Enter"
         \* styles: the placeholder style on the default one, the caret style
         \* on both at the cursor (0) of a focused field
         fg == IF isFocused THEN DefaultTheme.inputCaret.fg
               ELSE DefaultTheme.inputPlaceholder.fg
         bg == IF isFocused THEN DefaultTheme.inputCaret.bg ELSE DefaultTheme.input.bg
         bbs2 == Pop(bbs1)
         ids2 == Pop(ids1)
     IN
       /\ focusableControlIds' =
            IF interactive THEN Append(focusableControlIds, id) ELSE focusableControlIds
       /\ hover' = hover1
       /\ active' = active4
       /\ focus' = focus1
       /\ afterRenderCallbacks' = IF enter
                                  THEN Append(afterRenderCallbacks, FocusNextThenEnqueue)
                                  ELSE afterRenderCallbacks
       /\ event' = IF enter THEN stopEventDefault(event) ELSE event
       /\ stopped' = (stopped \/ enter)
       \* ui.put(0, 0, undefined, fg, bg): the char of an empty value
       /\ backBuffer' = put(backBuffer, b1, clipRectStack, 0, 0, 0, fg, bg, 0)
       /\ boundingBoxStack' = bbs2
       /\ box' = Top(bbs2)
       /\ idStack' = ids2
       /\ currentId' = Join(ids2)
       /\ ctlLog' = IF interactive
                    THEN Append(ctlLog, [id |-> id, over |-> over, type |-> event.type,
                                        key |-> event.key, wasActive |-> active = id,
                                        focusWas |-> focus, clicked |-> active4 = id])
                    ELSE ctlLog
  /\ hookLog' = LogHook
  /\ wi' = wi + 1
  /\ UNCHANGED <<screens, clipRectStack, clip, isModal, mouse, invalidated, disabled>>
  /\ UNCHANGED <<frontBuffer, started, pc, caller, i, si>>
  /\ UNCHANGED <<passes, flushes, renders, markDrawn, warnings, threw, focusOp, focusFrom>>
  /\ UNCHANGED <<hookObs, pushArgs>>
  /\ UNCHANGED frameVars

\* a widget of the application that animates and captures input: it may draw
\* a mark above the other cells and ask for another pass, directly or from an
\* after-render callback, and it may stop the current event
SpinnerStep ==
  /\ InHook
  /\ Widget.kind = "spinner"
  /\ \E stop \in {"none", "propagation", "default"} :
       /\ event' = IF stop = "propagation" THEN stopEventPropagation(event)
                   ELSE IF stop = "default" THEN stopEventDefault(event)
                   ELSE event
       /\ stopped' = (stopped \/ stop # "none")
  /\ \E how \in {"rest", "invalidate", "callback"} :
       /\ backBuffer' = IF how = "rest" THEN backBuffer
                        ELSE put(backBuffer, box, clipRectStack, Widget.x, Widget.y,
                                 Widget.label, WHITE, TRANSPARENT, 1)
       /\ markDrawn' = IF how = "rest" THEN markDrawn ELSE TRUE
       /\ invalidated' = IF how = "invalidate" THEN TRUE ELSE invalidated
       /\ afterRenderCallbacks' = IF how = "callback"
                                  THEN Append(afterRenderCallbacks, "invalidate")
                                  ELSE afterRenderCallbacks
  /\ hookLog' = LogHook
  /\ wi' = wi + 1
  /\ UNCHANGED <<screens, boundingBoxStack, box, clipRectStack, clip, idStack, currentId,
                 isModal, focusableControlIds, focus, hover, active, mouse, disabled>>
  /\ UNCHANGED <<frontBuffer, started, pc, caller, i, si>>
  /\ UNCHANGED <<passes, flushes, renders, ctlLog, warnings, threw, focusOp, focusFrom>>
  /\ UNCHANGED <<hookObs, pushArgs>>
  /\ UNCHANGED frameVars

\* screen.render() has returned: the opaque and modal tests of the screen loop
ScreenDone ==
  /\ pc = "screens"
  /\ si >= 1
  /\ wi > Len(Hook(screens[si].name))
  /\ si' = NextScreen(screens[si], si)
  /\ isModal' = ModalAfter(screens[si], isModal)
  /\ wi' = 1
  /\ UNCHANGED <<screens, boundingBoxStack, box, clipRectStack, clip, idStack, currentId,
                 event, focusableControlIds, focus, hover, active, mouse,
                 invalidated, afterRenderCallbacks, disabled>>
  /\ UNCHANGED <<termVars, started, pc, caller, i, histVars, obsVars>>
  /\ UNCHANGED frameVars

\* the callbacks that run: all up to and including the first that raises
CallbackRaises(queue) == \E k \in 1..Len(queue) : queue[k] = FocusNextThenEnqueue
CallbacksRun(queue) ==
  IF CallbackRaises(queue)
  THEN SubSeq(queue, 1, CHOOSE k \in 1..Len(queue) :
                          /\ queue[k] = FocusNextThenEnqueue
                          /\ \A j \in 1..(k - 1) : queue[j] # FocusNextThenEnqueue)
  ELSE queue

\* the after-render callbacks: whether the queue leaves the UI invalidated
RECURSIVE RunCallbacks(_, _)
RunCallbacks(queue, inv) ==
  IF Len(queue) = 0 THEN inv
  ELSE RunCallbacks(Tail(queue), IF Head(queue) = "invalidate" THEN TRUE ELSE inv)

\* tail of one iteration: pop the root box, check the stack, run the
\* callbacks, then leave the loop or clear the pending writes and repeat
IterEnd ==
  /\ pc = "screens"
  /\ si = 0
  /\ IF Len(boundingBoxStack) > 0
     THEN LET bbs == Pop(boundingBoxStack)
              raises == CallbackRaises(afterRenderCallbacks)
              inv == RunCallbacks(CallbacksRun(afterRenderCallbacks), invalidated)
              loop == IF raises THEN "throw" ELSE RenderLoop(inv, i)
          IN
            /\ focus' = IF raises THEN focusNextControl(focusableControlIds, focus)
                         ELSE focus
            /\ boundingBoxStack' = bbs
            /\ box' = Top(bbs)
            /\ warnings' = IF Len(bbs) > 0 THEN warnings \cup {"boxes on the stack"}
                           ELSE warnings
            /\ invalidated' = inv
            /\ IF loop = "break"
               THEN /\ pc' = "flush"
                    /\ UNCHANGED <<i, threw, backBuffer>>
               ELSE IF loop = "throw"
               THEN \* the TypeError leaves render() and _dispatchEvent
                    /\ pc' = "done"
                    /\ threw' = TRUE
                    /\ UNCHANGED <<i, backBuffer>>
               ELSE /\ backBuffer' = BufferClear(backBuffer)
                    /\ i' = i + 1
                    /\ pc' = IF loop = "repeat" THEN "iter" ELSE "flush"
                    /\ UNCHANGED threw
     ELSE \* "Cannot pop the root bounding box!"
          /\ pc' = "done"
          /\ threw' = TRUE
          /\ UNCHANGED <<boundingBoxStack, box, warnings, invalidated, i, backBuffer,
                         focus>>
  /\ UNCHANGED <<screens, clipRectStack, clip, idStack, currentId, isModal, event,
                 focusableControlIds, hover, active, mouse,
                 afterRenderCallbacks, disabled>>
  /\ UNCHANGED <<frontBuffer, started, caller, si, wi>>
  /\ UNCHANGED <<passes, flushes, renders, hookLog, ctlLog, markDrawn, focusOp, focusFrom>>
  /\ pushArgs' = IF Len(boundingBoxStack) > 0 THEN Pop(pushArgs) ELSE pushArgs
  /\ UNCHANGED <<stopped, hookObs>>
  /\ UNCHANGED frameVars

\* Terminal.render() at the end of UI.render(), and the return to the caller
Flush ==
  /\ pc = "flush"
  /\ LET r == TerminalRender(frontBuffer, backBuffer, canvas) IN
       /\ frontBuffer' = r.frontBuffer
       /\ backBuffer' = r.backBuffer
       /\ lastDraw' = r.draw
       /\ canvas' = r.canvas
  /\ UNCHANGED hostPuts
  /\ flushes' = flushes + 1
  /\ pc' = IF caller = "dispatch" THEN "default" ELSE "done"
  /\ UNCHANGED uiVars
  /\ UNCHANGED <<started, caller, i, si, wi>>
  /\ UNCHANGED <<passes, renders, hookLog, ctlLog, markDrawn, warnings, threw, focusOp,
                 focusFrom>>
  /\ UNCHANGED obsVars

\* UI._dispatchEvent after render(): the global fallback (defaultEventHandler)
DefaultHandler ==
  /\ pc = "default"
  /\ IF event # NoEvent /\ event.defaultPrevented = FALSE
     THEN /\ event' = NoEvent
          /\ IF IsKeyboardEvent(event) /\ event.type = "keydown" /\ event.key = "Tab"
             THEN /\ focus' = IF event.shiftKey
                              THEN focusPreviousControl(focusableControlIds, focus)
                              ELSE focusNextControl(focusableControlIds, focus)
                  /\ focusOp' = IF event.shiftKey THEN "previous" ELSE "next"
                  /\ focusFrom' = focus
                  /\ StartRender("fallback")
                  /\ renders' = renders + 1
             ELSE /\ pc' = "done"
                  /\ UNCHANGED <<focus, caller, i, passes, flushes, renders, threw,
                                 focusOp, focusFrom, stopped>>
     ELSE /\ pc' = "done"
          /\ UNCHANGED <<event, focus, caller, i, passes, flushes, renders, threw,
                         focusOp, focusFrom, stopped>>
  /\ UNCHANGED <<screens, boundingBoxStack, box, clipRectStack, clip, idStack, currentId,
                 isModal, focusableControlIds, hover, active, mouse,
                 invalidated, afterRenderCallbacks, disabled>>
  /\ UNCHANGED <<termVars, started, si, wi, hookLog, ctlLog, markDrawn, warnings>>
  /\ UNCHANGED <<hookObs, pushArgs>>
  /\ UNCHANGED frameVars

\* control is back with the host (render() or _dispatchEvent returned or
\* raised); the observations of the finished call are dropped
Return ==
  /\ pc = "done"
  /\ pc' = "idle"
  /\ caller' = "host"
  /\ i' = 0
  /\ si' = 0
  /\ wi' = 0
  /\ passes' = 0
  /\ flushes' = 0
  /\ renders' = 0
  /\ hookLog' = <<>>
  /\ ctlLog' = <<>>
  /\ markDrawn' = FALSE
  /\ warnings' = {}
  /\ threw' = FALSE
  /\ focusOp' = "none"
  /\ focusFrom' = Null
  /\ stopped' = FALSE
  /\ hookObs' = NoObs
  /\ UNCHANGED <<uiVars, termVars, started, pushArgs>>
  /\ lastDraw' = NoDraw
  /\ UNCHANGED <<canvas, hostPuts>>

\* ------------------------------------------------- a custom render hook
\* the custom hook of Panel is running and may make another call
InPanel == pc = "screens" /\ si >= 1 /\ screens[si].name = "Panel" /\ wi <= MaxOps

\* what is observed of the hook's call: the call, the stack depths before it
\* and the box depth after it
Op(name, x, y, boxesAfter) ==
  [hookObs EXCEPT !.op = name, !.x = x, !.y = y,
                  !.boxes = Len(boundingBoxStack),
                  !.clips = Len(clipRectStack),
                  !.ids = Len(idStack),
                  !.lowBoxes = IF boxesAfter < @ THEN boxesAfter ELSE @]

\* an exception leaves the hook, render() and the caller of render()
Raise == pc' = "done" /\ threw' = TRUE

\* ui.pushBoundingBox(x, y, width, height)
WPushBoundingBox ==
  /\ InPanel
  /\ \E r \in PanelRects :
       LET b == Compose(r.x, r.y, r.width, r.height, box) IN
       /\ boundingBoxStack' = Append(boundingBoxStack, b)
       /\ box' = b
       /\ pushArgs' = Append(pushArgs, r)
       /\ hookObs' = Op("pushBoundingBox", r.x, r.y, Len(boundingBoxStack) + 1)
  /\ wi' = wi + 1
  /\ UNCHANGED <<screens, clipRectStack, clip, idStack, currentId, isModal, event,
                 focusableControlIds, focus, hover, active, mouse, invalidated,
                 afterRenderCallbacks, disabled>>
  /\ UNCHANGED <<termVars, started, pc, caller, i, si, histVars, stopped>>
  /\ UNCHANGED frameVars

\* ui.popBoundingBox()
WPopBoundingBox ==
  /\ InPanel
  /\ LET r == popBoundingBox(boundingBoxStack) IN
       IF r.throws
       THEN /\ Raise
            /\ UNCHANGED <<boundingBoxStack, box, pushArgs>>
       ELSE /\ boundingBoxStack' = r.stack
            /\ box' = Top(r.stack)
            /\ pushArgs' = Pop(pushArgs)
            /\ UNCHANGED <<pc, threw>>
  /\ hookObs' = Op("popBoundingBox", 0, 0, Len(popBoundingBox(boundingBoxStack).stack))
  /\ wi' = wi + 1
  /\ UNCHANGED <<screens, clipRectStack, clip, idStack, currentId, isModal, event,
                 focusableControlIds, focus, hover, active, mouse, invalidated,
                 afterRenderCallbacks, disabled>>
  /\ UNCHANGED <<termVars, started, caller, i, si, stopped>>
  /\ UNCHANGED <<passes, flushes, renders, hookLog, ctlLog, markDrawn, warnings, focusOp,
                 focusFrom>>
  /\ UNCHANGED frameVars

\* ui.pushClipRect(x, y, width, height)
WPushClipRect ==
  /\ InPanel
  /\ \E r \in PanelRects :
       LET rect == Compose(r.x, r.y, r.width, r.height, box) IN
       /\ clipRectStack' = Append(clipRectStack, rect)
       /\ clip' = rect
       /\ hookObs' = Op("pushClipRect", r.x, r.y, Len(boundingBoxStack))
  /\ wi' = wi + 1
  /\ UNCHANGED <<screens, boundingBoxStack, box, idStack, currentId, isModal, event,
                 focusableControlIds, focus, hover, active, mouse, invalidated,
                 afterRenderCallbacks, disabled>>
  /\ UNCHANGED <<termVars, started, pc, caller, i, si, histVars, stopped, pushArgs>>
  /\ UNCHANGED frameVars

\* ui.popClipRect()
WPopClipRect ==
  /\ InPanel
  /\ LET r == popClipRect(clipRectStack) IN
       IF r.throws
       THEN /\ Raise
            /\ UNCHANGED <<clipRectStack, clip>>
       ELSE /\ clipRectStack' = r.stack
            /\ clip' = Top(r.stack)
            /\ UNCHANGED <<pc, threw>>
  /\ hookObs' = Op("popClipRect", 0, 0, Len(boundingBoxStack))
  /\ wi' = wi + 1
  /\ UNCHANGED <<screens, boundingBoxStack, box, idStack, currentId, isModal, event,
                 focusableControlIds, focus, hover, active, mouse, invalidated,
                 afterRenderCallbacks, disabled>>
  /\ UNCHANGED <<termVars, started, caller, i, si, stopped, pushArgs>>
  /\ UNCHANGED <<passes, flushes, renders, hookLog, ctlLog, markDrawn, warnings, focusOp,
                 focusFrom>>
  /\ UNCHANGED frameVars

\* ui.put(x, y, char, fg): reading this.box.x without a current box raises a
\* TypeError
WPut ==
  /\ InPanel
  /\ \E c \in PanelCells :
       /\ IF box = NoRect
          THEN /\ Raise
               /\ UNCHANGED backBuffer
          ELSE /\ backBuffer' = put(backBuffer, box, clipRectStack, c.x, c.y, PanelChar,
                                    WHITE, TRANSPARENT, 0)
               /\ UNCHANGED <<pc, threw>>
       /\ hookObs' = Op("put", c.x, c.y, Len(boundingBoxStack))
  /\ wi' = wi + 1
  /\ UNCHANGED uiVars
  /\ UNCHANGED <<frontBuffer, started, caller, i, si, stopped, pushArgs>>
  /\ UNCHANGED <<passes, flushes, renders, hookLog, ctlLog, markDrawn, warnings, focusOp,
                 focusFrom>>
  /\ UNCHANGED frameVars

\* Control({}, callback): a control without an id.  The defaults read
\* ui.box.width (a TypeError without a current box); then pushId and
\* pushBoundingBox run, and only then the missing id is rejected
ControlNoId ==
  /\ InPanel
  /\ IF box = NoRect
     THEN UNCHANGED <<idStack, currentId, boundingBoxStack, box, pushArgs>>
     ELSE LET ids1 == Append(idStack, Undefined)
              b1 == Compose(0, 0, box.width, box.height, box)
          IN /\ idStack' = ids1
             /\ currentId' = Join(ids1)
             /\ boundingBoxStack' = Append(boundingBoxStack, b1)
             /\ box' = b1
             /\ pushArgs' = Append(pushArgs, [x |-> 0, y |-> 0, width |-> box.width,
                                              height |-> box.height])
  /\ Raise
  /\ hookObs' = Op("Control", 0, 0, Len(boundingBoxStack))
  /\ wi' = wi + 1
  /\ UNCHANGED <<screens, clipRectStack, clip, isModal, event, focusableControlIds, focus,
                 hover, active, mouse, invalidated, afterRenderCallbacks, disabled>>
  /\ UNCHANGED <<termVars, started, caller, i, si, stopped>>
  /\ UNCHANGED <<passes, flushes, renders, hookLog, ctlLog, markDrawn, warnings, focusOp,
                 focusFrom>>
  /\ UNCHANGED frameVars

\* ui.isMouseOver(x, y, width, height) in a hook; the defaults read
\* this.box (a TypeError without a current box)
WIsMouseOver ==
  /\ InPanel
  /\ \E r \in QueryRects :
       /\ IF box = NoRect
          THEN Raise
          ELSE UNCHANGED <<pc, threw>>
       /\ hookObs' = [Op("isMouseOver", r.x, r.y, Len(boundingBoxStack)) EXCEPT
                        !.width = r.width, !.height = r.height,
                        !.result = IF box = NoRect THEN "none"
                                   ELSE Bool(isMouseOver(r.x, r.y, r.width, r.height,
                                                         box, mouse))]
  /\ wi' = wi + 1
  /\ UNCHANGED uiVars
  /\ UNCHANGED <<termVars, started, caller, i, si, stopped, pushArgs>>
  /\ UNCHANGED <<passes, flushes, renders, hookLog, ctlLog, markDrawn, warnings, focusOp,
                 focusFrom>>
  /\ UNCHANGED frameVars

\* ui.isMouseOver() in a hook: the rectangle defaults to the current box
WIsMouseOverBox ==
  /\ InPanel
  /\ IF box = NoRect
     THEN /\ Raise
          /\ hookObs' = Op("isMouseOver()", 0, 0, Len(boundingBoxStack))
     ELSE /\ UNCHANGED <<pc, threw>>
          /\ hookObs' = [Op("isMouseOver()", 0, 0, Len(boundingBoxStack)) EXCEPT
                           !.width = box.width, !.height = box.height,
                           !.result = Bool(isMouseOver(0, 0, box.width, box.height,
                                                       box, mouse))]
  /\ wi' = wi + 1
  /\ UNCHANGED uiVars
  /\ UNCHANGED <<termVars, started, caller, i, si, stopped, pushArgs>>
  /\ UNCHANGED <<passes, flushes, renders, hookLog, ctlLog, markDrawn, warnings, focusOp,
                 focusFrom>>
  /\ UNCHANGED frameVars

\* ui.isMouseDown() in a hook (button 0)
WIsMouseDown ==
  /\ InPanel
  /\ LET r == isMouseDown(mouse, 0) IN
       /\ IF r.throws
          THEN Raise
          ELSE UNCHANGED <<pc, threw>>
       /\ hookObs' = [Op("isMouseDown", 0, 0, Len(boundingBoxStack)) EXCEPT
                        !.result = r.value]
  /\ wi' = wi + 1
  /\ UNCHANGED uiVars
  /\ UNCHANGED <<termVars, started, caller, i, si, stopped, pushArgs>>
  /\ UNCHANGED <<passes, flushes, renders, hookLog, ctlLog, markDrawn, warnings, focusOp,
                 focusFrom>>
  /\ UNCHANGED frameVars

\* ui.isKeyDown("Enter") in a hook
WIsKeyDown ==
  /\ InPanel
  /\ hookObs' = [Op("isKeyDown", 0, 0, Len(boundingBoxStack)) EXCEPT
                   !.result = LET v == isKeyDown("Enter") IN
                              IF v = Undefined THEN Undefined ELSE Bool(v)]
  /\ wi' = wi + 1
  /\ UNCHANGED uiVars
  /\ UNCHANGED <<termVars, started, pc, caller, i, si, histVars, stopped, pushArgs>>
  /\ UNCHANGED frameVars

\* Control({ id: "p" }, callback) in a hook, with the default rectangle (the
\* current box) and a callback that draws nothing.  The defaults read
\* ui.box.width (a TypeError without a current box)
WControl ==
  /\ InPanel
  /\ IF box = NoRect
     THEN /\ Raise
          /\ UNCHANGED <<idStack, currentId, boundingBoxStack, box, focusableControlIds,
                         hover, active, focus, ctlLog>>
     ELSE LET \* ui.pushId(id); ui.pushBoundingBox(x, y, width, height); id = ui.getId()
              ids1 == Append(idStack, "p")
              id == Join(ids1)
              b1 == Compose(0, 0, box.width, box.height, box)
              bbs1 == Append(boundingBoxStack, b1)
              interactive == ~isModal
              over == /\ isMouseOver(0, 0, box.width, box.height, b1, mouse)
                      /\ isCellVisible(mouse.x, mouse.y, clip)
              hover1 == IF interactive THEN ControlHover(id, over, hover) ELSE hover
              hasEvent == interactive /\ event # NoEvent
              press == hasEvent /\ ControlPress(id, hover1, event)
              active1 == IF press THEN id ELSE active
              focus1 == IF press THEN id ELSE focus
              release == hasEvent /\ ControlRelease(id, active1, event)
              active2 == IF release THEN Null ELSE active1
              enterDown == hasEvent /\ ControlEnterDown(id, focus1, event)
              active3 == IF enterDown THEN id ELSE active2
              enterUp == hasEvent /\ ControlEnterUp(id, active3, event)
              active4 == IF enterUp THEN id ELSE active3
              \* ui.popBoundingBox(); ui.popId()
              bbs2 == Pop(bbs1)
              ids2 == Pop(ids1)
          IN /\ focusableControlIds' =
                  IF interactive THEN Append(focusableControlIds, id)
                  ELSE focusableControlIds
             /\ hover' = hover1
             /\ active' = active4
             /\ focus' = focus1
             /\ boundingBoxStack' = bbs2
             /\ box' = Top(bbs2)
             /\ idStack' = ids2
             /\ currentId' = Join(ids2)
             /\ ctlLog' = IF interactive
                          THEN Append(ctlLog, [id |-> id, over |-> over,
                                              type |-> event.type, key |-> event.key,
                                              wasActive |-> active = id,
                                              focusWas |-> focus,
                                              clicked |-> active4 = id])
                          ELSE ctlLog
             /\ UNCHANGED <<pc, threw>>
  /\ hookObs' = Op("Control(p)", 0, 0, Len(boundingBoxStack))
  /\ wi' = wi + 1
  /\ UNCHANGED <<screens, clipRectStack, clip, isModal, event, mouse, invalidated,
                 afterRenderCallbacks, disabled>>
  /\ UNCHANGED <<termVars, started, caller, i, si, stopped, pushArgs>>
  /\ UNCHANGED <<passes, flushes, renders, hookLog, markDrawn, warnings, focusOp,
                 focusFrom>>
  /\ UNCHANGED frameVars

\* ui.pushScreen(menu) by the running application
openMenu ==
  /\ pc = "idle"
  /\ started
  /\ screens = << Main >>
  /\ screens' = Append(screens, Menu)
  /\ UNCHANGED <<boundingBoxStack, box, clipRectStack, clip, idStack, currentId,
                 isModal, event, focusableControlIds, focus, hover, active, mouse,
                 invalidated, afterRenderCallbacks, disabled>>
  /\ UNCHANGED <<termVars, started, posVars, histVars, obsVars>>
  /\ UNCHANGED frameVars

\* ui.popScreen() by the running application
closeMenu ==
  /\ pc = "idle"
  /\ started
  /\ screens = << Main, Menu >>
  /\ screens' = Pop(screens)
  /\ UNCHANGED <<boundingBoxStack, box, clipRectStack, clip, idStack, currentId,
                 isModal, event, focusableControlIds, focus, hover, active, mouse,
                 invalidated, afterRenderCallbacks, disabled>>
  /\ UNCHANGED <<termVars, started, posVars, histVars, obsVars>>
  /\ UNCHANGED frameVars

\* ------------------------------------------- the terminal used directly
\* what the host puts: a cell of layer 1 with a background, one of the same
\* layer without a background, and the first again on layer 0
Pens == { [char |-> 65, fg |-> WHITE, bg |-> BLUE, layer |-> 1],
          [char |-> 66, fg |-> RED, bg |-> TRANSPARENT, layer |-> 1],
          [char |-> 65, fg |-> WHITE, bg |-> BLUE, layer |-> 0] }

\* where the host puts: two cells of the grid and a point left of it
PutPoints == { [x |-> 0, y |-> 0], [x |-> 1, y |-> 0], [x |-> -1, y |-> 0] }

\* terminal.put(x, y, char, fg, bg, layer) by the host
TPut ==
  /\ pc = "idle"
  /\ Len(hostPuts) < MaxPuts
  /\ \E p \in PutPoints, a \in Pens :
       /\ backBuffer' = BufferPut(backBuffer, p.x, p.y, a.char, a.fg, a.bg, a.layer)
       /\ hostPuts' = Append(hostPuts, [x |-> p.x, y |-> p.y, pen |-> a])
  /\ lastDraw' = NoDraw
  /\ UNCHANGED <<uiVars, frontBuffer, started, posVars, histVars, obsVars, canvas>>

\* terminal.render() by the host
TRender ==
  /\ pc = "idle"
  /\ LET r == TerminalRender(frontBuffer, backBuffer, canvas) IN
       /\ frontBuffer' = r.frontBuffer
       /\ backBuffer' = r.backBuffer
       /\ lastDraw' = r.draw
       /\ canvas' = r.canvas
  /\ hostPuts' = <<>>
  /\ UNCHANGED <<uiVars, started, posVars, histVars, obsVars>>

Next ==
  \/ pushScreen
  \/ popScreen
  \/ SetDisabled
  \/ dispatchEvent
  \/ hostRender
  \/ IterBegin
  \/ ButtonStep
  \/ SpinnerStep
  \/ ScreenDone
  \/ IterEnd
  \/ Flush
  \/ DefaultHandler
  \/ Return

Spec == Init /\ [][Next]_vars

\* The UI with the Panel screen alone, rendered by the host
InitStacks ==
  /\ screens = << Panel >>
  /\ boundingBoxStack = <<>>
  /\ box = NoRect
  /\ clipRectStack = <<>>
  /\ clip = NoRect
  /\ idStack = <<>>
  /\ currentId = Null
  /\ isModal = FALSE
  /\ event = NoEvent
  /\ focusableControlIds = <<>>
  /\ focus = Null
  /\ hover = Null
  /\ active = Null
  /\ mouse = InitMouse
  /\ invalidated = FALSE
  /\ afterRenderCallbacks = <<>>
  /\ disabled = {}
  /\ frontBuffer = EmptyBuffer
  /\ backBuffer = EmptyBuffer
  /\ started = TRUE
  /\ pc = "idle"
  /\ caller = "host"
  /\ i = 0
  /\ si = 0
  /\ wi = 0
  /\ passes = 0
  /\ flushes = 0
  /\ renders = 0
  /\ hookLog = <<>>
  /\ ctlLog = <<>>
  /\ markDrawn = FALSE
  /\ warnings = {}
  /\ threw = FALSE
  /\ focusOp = "none"
  /\ focusFrom = Null
  /\ stopped = FALSE
  /\ hookObs = NoObs
  /\ pushArgs = <<>>
  /\ canvas = EmptyCanvas
  /\ lastDraw = NoDraw
  /\ hostPuts = <<>>

\* entries a finished call of render() left on the stacks
Leftover == Len(boundingBoxStack) + Len(clipRectStack) + Len(idStack)

\* a hook that nests boxes and controls
NextStacks ==
  \/ (Leftover <= MaxLeft /\ hostRender)
  \/ IterBegin
  \/ WPushBoundingBox
  \/ WPopBoundingBox
  \/ ControlNoId
  \/ ScreenDone
  \/ IterEnd
  \/ Flush
  \/ Return

SpecStacks == InitStacks /\ [][NextStacks]_vars

\* a hook that opens a box, then clips and draws
NextClips ==
  \/ (Leftover <= MaxLeft /\ hostRender)
  \/ IterBegin
  \/ (wi = 1 /\ WPushBoundingBox)
  \/ WPushClipRect
  \/ WPopClipRect
  \/ WPut
  \/ ScreenDone
  \/ IterEnd
  \/ Flush
  \/ Return

SpecClips == InitStacks /\ [][NextClips]_vars

\* a custom hook that asks the UI about the pointer and the keyboard, under
\* the root box or one box of its own, while the host dispatches events
NextPointer ==
  \/ (Leftover <= MaxLeft /\ dispatchEvent)
  \/ IterBegin
  \/ (wi = 1 /\ WPushBoundingBox)
  \/ WPopBoundingBox
  \/ WIsMouseOver
  \/ WIsMouseOverBox
  \/ WIsMouseDown
  \/ WIsKeyDown
  \/ ScreenDone
  \/ IterEnd
  \/ Flush
  \/ DefaultHandler
  \/ Return

SpecPointer == InitStacks /\ [][NextPointer]_vars

\* a custom hook that pushes up to two clip rects, renders a control under
\* them and pops clip rects, while the host dispatches events
NextHover ==
  \/ (Leftover <= MaxLeft /\ dispatchEvent)
  \/ IterBegin
  \/ (wi <= 2 /\ WPushClipRect)
  \/ (wi >= 2 /\ WControl)
  \/ (wi >= 3 /\ WPopClipRect)
  \/ ScreenDone
  \/ IterEnd
  \/ Flush
  \/ DefaultHandler
  \/ Return

SpecHover == InitStacks /\ [][NextHover]_vars

\* an application that has shown its first frame with the screens scr
InitScreens(scr) ==
  /\ screens = scr
  /\ boundingBoxStack = <<>>
  /\ box = NoRect
  /\ clipRectStack = <<>>
  /\ clip = NoRect
  /\ idStack = <<>>
  /\ currentId = Null
  /\ isModal = FALSE
  /\ event = NoEvent
  /\ focusableControlIds = <<>>
  /\ focus = Null
  /\ hover = Null
  /\ active = Null
  /\ mouse = InitMouse
  /\ invalidated = FALSE
  /\ afterRenderCallbacks = <<>>
  /\ disabled = {}
  /\ frontBuffer = EmptyBuffer
  /\ backBuffer = EmptyBuffer
  /\ started = TRUE
  /\ pc = "idle"
  /\ caller = "host"
  /\ i = 0
  /\ si = 0
  /\ wi = 0
  /\ passes = 0
  /\ flushes = 0
  /\ renders = 0
  /\ hookLog = <<>>
  /\ ctlLog = <<>>
  /\ markDrawn = FALSE
  /\ warnings = {}
  /\ threw = FALSE
  /\ focusOp = "none"
  /\ focusFrom = Null
  /\ stopped = FALSE
  /\ hookObs = NoObs
  /\ pushArgs = <<>>
  /\ canvas = EmptyCanvas
  /\ lastDraw = NoDraw
  /\ hostPuts = <<>>

\* a form with a text field and a button, driven by mouse and keyboard
NextInput ==
  \/ dispatchEvent
  \/ IterBegin
  \/ InputStep
  \/ ButtonStep
  \/ ScreenDone
  \/ IterEnd
  \/ Flush
  \/ DefaultHandler
  \/ Return

SpecInput == InitScreens(<< Form >>) /\ [][NextInput]_vars

\* an application that opens and closes a modal menu over its main screen
NextLate ==
  \/ dispatchEvent
  \/ hostRender
  \/ openMenu
  \/ closeMenu
  \/ IterBegin
  \/ ButtonStep
  \/ ScreenDone
  \/ IterEnd
  \/ Flush
  \/ DefaultHandler
  \/ Return

SpecLate == InitScreens(<< Main >>) /\ [][NextLate]_vars

\* UI._dispatchEvent for the events of the mouse
dispatchMouseEvent == dispatchEvent /\ ~IsKeyboardEvent(event')

\* one screen with one button, driven by the mouse alone
NextHold ==
  \/ dispatchMouseEvent
  \/ IterBegin
  \/ ButtonStep
  \/ ScreenDone
  \/ IterEnd
  \/ Flush
  \/ DefaultHandler
  \/ Return

SpecHold == InitScreens(<< Main >>) /\ [][NextHold]_vars

\* the terminal alone: the host puts cells and renders
NextTerminal ==
  \/ TPut
  \/ TRender

SpecTerminal == Init /\ [][NextTerminal]_vars

\* ================================================================ claims
\* a call of UI.render() is over: it returned or raised
RenderOver == pc = "done"

\* the mark the animating widget draws
MarkShown(buf) == buf[Spinner.x + Spinner.y * GridW].char = Spinner.label

\* the steps that belong to a running dispatch or render
RenderStep ==
  \/ IterBegin \/ ButtonStep \/ SpinnerStep \/ ScreenDone \/ IterEnd \/ Flush
  \/ DefaultHandler \/ Return

\* C1: a call of UI.render() runs at most MAX_RENDERS_PER_FRAME iterations,
\* whatever the hooks and callbacks invalidate, and it never stops inside:
\* while a call is running one of its steps can be taken (each step moves on
\* in the widget list, the screen list or the iteration count, so the call
\* ends).
C1_BoundedRender ==
  /\ passes <= MAX_RENDERS_PER_FRAME
  /\ i <= MAX_RENDERS_PER_FRAME
  /\ (pc # "idle" => ENABLED RenderStep)

\* C1 witness: a call has ended after an iteration that invalidated the UI
C1_Witness == RenderOver /\ invalidated /\ passes >= 1

\* C2 (as claimed): when every iteration of a call invalidates, the call runs
\* the hooks MAX_RENDERS_PER_FRAME times, then stops with exactly one flush
C2_AlwaysInvalidating ==
  (RenderOver /\ invalidated) => (passes = MAX_RENDERS_PER_FRAME /\ flushes = 1)

\* C3 (as claimed): every call of UI.render() flushes exactly once, and the
\* frame it leaves shows the mark only if its last iteration drew the mark
C3_OneFlushOfLastIteration ==
  RenderOver => (flushes = 1 /\ (MarkShown(frontBuffer) => markDrawn))

\* C4 (as claimed): a call that ends without stabilizing has flushed the
\* cells its last iteration wrote
C4_LastFrameFlushed ==
  (RenderOver /\ invalidated /\ markDrawn) => (flushes = 1 /\ MarkShown(frontBuffer))

\* C5 (as claimed): a call that ends without stabilizing has reported a
\* warning and returned normally
C5_WarnsOnExhaustion ==
  (RenderOver /\ invalidated) => (warnings # {} /\ ~threw)

\* ---- screens and controls, for C6 .. C10
\* the position in the stack of the screen whose render hook calls control id
ScreenOf(id) ==
  CHOOSE k \in 1..Len(ScreenNames) :
    \E j \in 1..Len(Hook(ScreenNames[k])) : Hook(ScreenNames[k])[j].id = id

BelowOpaque(k) == \E j \in (k + 1)..Len(screens) : screens[j].isOpaque
BelowModal(k) == \E j \in (k + 1)..Len(screens) : screens[j].isModal

InList(list, id) == \E k \in 1..Len(list) : list[k] = id

\* this step gives hover, active or focus to id
Acquires(id) ==
  \/ hover' = id /\ hover # id
  \/ active' = id /\ active # id
  \/ focus' = id /\ focus # id

\* the pointer cell lies in the rectangle of widget w
PointerIn(w) ==
  /\ mouse.x >= w.x /\ mouse.x < w.x + w.width
  /\ mouse.y >= w.y /\ mouse.y < w.y + w.height

\* a pass has run its hooks (it may still flush, or be over)
PassRan == pc \in {"screens", "flush", "default", "done"}

\* a dispatch is over and ctlLog holds what the controls of its pass saw
DispatchOver == pc = "done" /\ caller = "dispatch"

\* C6: in an iteration the render hooks run from the top of the stack
\* downward, no hook runs below an opaque screen, and no step gives hover,
\* active or focus to a control of a screen below an opaque one or registers
\* it as focusable.
C6_OpaqueHaltsDescent ==
  /\ [](PassRan =>
         \A k \in 1..Len(hookLog) :
           /\ hookLog[k] = Len(screens) - k + 1
           /\ ~BelowOpaque(hookLog[k]))
  /\ [][\A id \in ControlIds :
          BelowOpaque(ScreenOf(id)) =>
            ~Acquires(id) /\ ~InList(focusableControlIds', id)]_vars

\* C6 witness: a press with the pointer over a control of the bottom screen
\* has been handled with an opaque screen above it; only the two upper hooks
\* ran
C6_Witness ==
  /\ DispatchOver
  /\ Len(screens) = 3
  /\ screens[2].isOpaque
  /\ hookLog = <<3, 2>>
  /\ mouse.x = 0
  /\ \E k \in 1..Len(ctlLog) : ctlLog[k].type = "mousedown"
  /\ hover # "a" /\ active # "a" /\ focus # "a"

\* C7: no step gives hover, active or focus to a control of a screen below a
\* modal screen, or registers it as focusable; a control that is enabled and
\* not below a modal screen is registered when it renders, takes hover when
\* the pointer is in its rectangle, and takes active and focus on a press
\* there.
C7_ModalSuppressesBelow ==
  [][/\ \A id \in ControlIds :
          BelowModal(ScreenOf(id)) =>
            ~Acquires(id) /\ ~InList(focusableControlIds', id)
     /\ (InHook /\ Widget.kind = "button" /\ ~BelowModal(si)
           /\ Widget.id \notin disabled) =>
          /\ InList(focusableControlIds', Widget.id)
          /\ PointerIn(Widget) => hover' = Widget.id
          /\ (PointerIn(Widget) /\ event.type = "mousedown") =>
               (active' = Widget.id /\ focus' = Widget.id)
          /\ (focus = Widget.id /\ event.type = "keydown" /\ event.key = "Enter") =>
               active' = Widget.id]_vars

\* C7 witness: a press with the pointer over a control of the modal screen
\* and over a control of the screen below it; the lower hook ran, the upper
\* control took hover, active and focus
C7_Witness ==
  /\ DispatchOver
  /\ Len(screens) >= 2
  /\ screens[2].isModal
  /\ InList(hookLog, 1)
  /\ mouse.x = 1
  /\ \E k \in 1..Len(ctlLog) : ctlLog[k].type = "mousedown" /\ ctlLog[k].id = "b"
  /\ hover = "b" /\ active = "b" /\ focus = "b"
  /\ ~InList(focusableControlIds, "a")

C9_ActiveChanges ==
  [][active' # active =>
       /\ pc = "screens"
       /\ IF active' # Null
          THEN \/ event.type = "mousedown" /\ hover' = active'
               \/ event.type = "keydown" /\ event.key = "Enter" /\ focus = active'
          ELSE \/ event.type = "mouseup"
               \/ event.type = "keyup" /\ event.key = "Enter"]_vars

\* C9 witness: the key-down of Enter made the focused control active while
\* the pointer was elsewhere
C9_Witness ==
  /\ DispatchOver
  /\ active = "c" /\ focus = "c" /\ hover # "c"
  /\ \E k \in 1..Len(ctlLog) :
       /\ ctlLog[k].id = "c" /\ ~ctlLog[k].wasActive /\ ~ctlLog[k].over
       /\ ctlLog[k].type = "keydown" /\ ctlLog[k].key = "Enter"

\* the entry of a list of n ids that lies d places after the 0-based place idx
Cycle(list, idx, d) == list[((idx + d) % Len(list)) + 1]

\* C10: with focus on an id of the focusable list, focusNextControl moves
\* focus to the entry after it and focusPreviousControl to the entry before
\* it, in registration order, wrapping at both ends.
C10_FocusCycles ==
  (focusOp # "none" /\ InList(focusableControlIds, focusFrom)) =>
    LET idx == indexOf(focusableControlIds, focusFrom)
        n == Len(focusableControlIds)
    IN focus = Cycle(focusableControlIds, idx, IF focusOp = "next" THEN 1 ELSE n - 1)

\* C10 witness: with three ids registered, "previous" from the first entry
\* has given the last one
C10_Witness ==
  /\ focusOp = "previous"
  /\ Len(focusableControlIds) = 3
  /\ focusFrom = focusableControlIds[1]
  /\ focus = focusableControlIds[3]

\* ---- events, for C11 .. C13
IsTab(e) == e.type = "keydown" /\ e.key = "Tab"

\* C11 (as claimed): a dispatch of a Tab key-down that no widget stopped ends
\* in the fallback, with two calls of render() and no current event in the
\* second; every other dispatch that renders ends after one call of render()
C11_TabFallback ==
  /\ (pc = "done" /\ caller = "dispatch") => (renders = 1 /\ ~IsTab(event))
  /\ caller = "fallback" => (renders = 2 /\ event = NoEvent)

\* C12: once a widget has stopped the event, UI.event is null for the rest of
\* that call of render(), and the fallback after it changes nothing: no focus
\* step and no further render().
C12_StoppedEventStaysNull ==
  /\ [](stopped => event = NoEvent)
  /\ [][(stopped /\ pc = "default") =>
          (pc' = "done" /\ focus' = focus /\ renders' = renders)]_vars

\* C12 witness: a Tab key-down was seen by a control rendered before the
\* widget that stopped it and not by a control rendered after; the dispatch
\* returned after one render() with focus where it was
C12_Witness ==
  /\ DispatchOver /\ ~threw /\ stopped
  /\ renders = 1 /\ flushes = 1
  /\ \E k \in 1..Len(ctlLog) : \E j \in (k + 1)..Len(ctlLog) :
       /\ ctlLog[k].id = "b" /\ ctlLog[k].type = "keydown" /\ ctlLog[k].key = "Tab"
       /\ ctlLog[j].id = "a" /\ ctlLog[j].type = "none"
       /\ focus = ctlLog[k].focusWas
       /\ focus = "b"

\* pixel px lies in cell c
InCell(px, c) == c * CellPx <= px /\ px < (c + 1) * CellPx

\* this step changes the stored pointer cell
CellChanges == mouse'.x # mouse.x \/ mouse'.y # mouse.y

\* C13: a mousemove inside the stored pointer cell is suppressed (no render,
\* nothing changes); a mousemove into another cell stores that cell and
\* renders; every other event renders.  Only a rendering mousemove changes
\* the stored cell.
C13_MoveSuppression ==
  /\ [](pc = "idle" =>
         \A e \in Events :
           LET r == initialEventHandler(e, mouse) IN
           IF e.type # "mousemove" THEN r.render
           ELSE IF InCell(e.clientX, mouse.x) /\ InCell(e.clientY, mouse.y)
           THEN ~r.render /\ r.mouse = mouse
           ELSE /\ r.render
                /\ InCell(e.clientX, r.mouse.x) /\ InCell(e.clientY, r.mouse.y))
  /\ [][/\ (pc = "idle" /\ pc' = "iter" /\ caller' = "dispatch"
             /\ event'.type = "mousemove") => CellChanges
        /\ CellChanges =>
             (pc = "idle" /\ pc' = "iter" /\ caller' = "dispatch"
               /\ event'.type = "mousemove" /\ renders' = 1)]_vars

\* C13 witness: a mousemove into cell 1 has started a render, and a further
\* mousemove inside that cell would be suppressed
C13_Witness ==
  /\ pc = "iter" /\ caller = "dispatch" /\ passes = 0
  /\ event.type = "mousemove"
  /\ mouse.x = 1
  /\ \E e \in MouseMoves : ~initialEventHandler(e, mouse).render

\* ---- the box, clip and id stacks, for C14 .. C20
\* an iteration has ended normally: its hooks returned and the root was popped
IterationEnded == pc = "flush" \/ (pc = "done" /\ ~threw)

\* the hook never popped below the box depth it started with, and every box
\* it pushed has been popped / some box it pushed has not
HookBalanced ==
  /\ hookObs.lowBoxes >= hookObs.baseBoxes
  /\ Len(boundingBoxStack) + 1 = hookObs.baseBoxes

HookLeftBox ==
  /\ hookObs.lowBoxes >= hookObs.baseBoxes
  /\ Len(boundingBoxStack) + 1 > hookObs.baseBoxes

\* C14 (as claimed): an iteration whose pushBoundingBox calls are all
\* matched ends with an empty box stack and without a warning; an iteration
\* that leaves a push unmatched ends with a warning, and render() completes
\* with a flush
C14_BalancedOrReported ==
  IterationEnded =>
    /\ HookBalanced => (boundingBoxStack = <<>> /\ warnings = {})
    /\ HookLeftBox => (warnings # {} /\ (pc = "done" => flushes = 1))

\* C15 (as claimed): an iteration that leaves a pushClipRect unmatched ends
\* with a warning
C15_ClipLeakReported ==
  (IterationEnded /\ Len(clipRectStack) > hookObs.baseClips) => warnings # {}

\* C16 (as claimed): popBoundingBox called by a hook with only the root box
\* on the stack raises an error and leaves the stack and the current box as
\* they were
C16_RootNotPopped ==
  (hookObs.op = "popBoundingBox" /\ hookObs.boxes = 1 /\ hookObs.baseBoxes = 1) =>
    (threw /\ Len(boundingBoxStack) = 1 /\ box = boundingBoxStack[1])

\* C17 (as claimed): popClipRect called with an empty clip stack raises an
\* error
C17_EmptyClipPopFails ==
  (hookObs.op = "popClipRect" /\ hookObs.clips = 0) => threw

RECURSIVE SumX(_, _)
SumX(args, k) == IF k = 0 THEN 0 ELSE args[k].x + SumX(args, k - 1)

RECURSIVE SumY(_, _)
SumY(args, k) == IF k = 0 THEN 0 ELSE args[k].y + SumY(args, k - 1)

\* C18: the current box is the top of the stack; the origin of every box on
\* the stack is the sum of the relative origins of the boxes up to it and its
\* size is the size it was pushed with; a push or a pop leaves the boxes
\* below untouched, so a pop makes the box before the matching push current
\* again.
C18_BoxComposition ==
  /\ [](/\ box = Top(boundingBoxStack)
        /\ Len(pushArgs) = Len(boundingBoxStack)
        /\ \A k \in 1..Len(boundingBoxStack) :
             /\ boundingBoxStack[k].x = SumX(pushArgs, k)
             /\ boundingBoxStack[k].y = SumY(pushArgs, k)
             /\ boundingBoxStack[k].width = pushArgs[k].width
             /\ boundingBoxStack[k].height = pushArgs[k].height)
  /\ [][/\ Len(boundingBoxStack') < Len(boundingBoxStack) =>
             boundingBoxStack' = SubSeq(boundingBoxStack, 1, Len(boundingBoxStack'))
        /\ Len(boundingBoxStack') > Len(boundingBoxStack) =>
             SubSeq(boundingBoxStack', 1, Len(boundingBoxStack)) = boundingBoxStack]_vars

\* C18 witness: the hook pushed a box at relative x 1, pushed a box inside
\* it and popped that one: the first box is current again
C18_Witness ==
  /\ pc = "screens" /\ wi = 4
  /\ hookObs.op = "popBoundingBox" /\ hookObs.boxes = 3 /\ hookObs.baseBoxes = 1
  /\ Len(boundingBoxStack) = 2
  /\ pushArgs[2].x = 1
  /\ box.x = 1 /\ box.width = pushArgs[2].width

\* the cell lies inside every rect of the clip stack (half-open on each)
InsideEveryClip(ax, ay) ==
  \A k \in 1..Len(clipRectStack) :
    /\ clipRectStack[k].x <= ax /\ ax < clipRectStack[k].x + clipRectStack[k].width
    /\ clipRectStack[k].y <= ay /\ ay < clipRectStack[k].y + clipRectStack[k].height

InGrid(ax, ay) == 0 <= ax /\ ax < GridW /\ 0 <= ay /\ ay < GridH

\* this step is a call of ui.put by the hook
PutStep ==
  /\ pc = "screens" /\ wi' = wi + 1 /\ hookObs'.op = "put"
  /\ clipRectStack' = clipRectStack /\ boundingBoxStack' = boundingBoxStack

\* C19: with a current box, ui.put(x, y, ...) writes the cell
\* (box.x + x, box.y + y) of the back buffer if that cell lies inside every
\* rect of the clip stack, and otherwise changes nothing; it raises no error.
C19_PutClipped ==
  [][(PutStep /\ box # NoRect) =>
       LET ax == box.x + hookObs'.x
           ay == box.y + hookObs'.y
       IN /\ ~threw' /\ pc' = pc
          /\ (InsideEveryClip(ax, ay) /\ InGrid(ax, ay)) =>
               /\ backBuffer'[ax + ay * GridW].char = PanelChar
               /\ \A c \in Cells \ {ax + ay * GridW} : backBuffer'[c] = backBuffer[c]
          /\ ~InsideEveryClip(ax, ay) => backBuffer' = backBuffer]_vars

\* C19 witness: inside a box at x 1, a put to a cell that lies in the inner
\* clip rect and not in the outer one has been dropped
C19_Witness ==
  /\ pc = "screens" /\ hookObs.op = "put" /\ ~threw
  /\ box # NoRect /\ box.x = 1
  /\ Len(clipRectStack) = 2
  /\ isPointInRect(box.x + hookObs.x, box.y + hookObs.y, clipRectStack[2])
  /\ ~isPointInRect(box.x + hookObs.x, box.y + hookObs.y, clipRectStack[1])
  /\ InGrid(box.x + hookObs.x, box.y + hookObs.y)
  /\ backBuffer[box.x + hookObs.x + (box.y + hookObs.y) * GridW].char = 0

\* C20 (as claimed): a Control without an id raises an error and leaves the
\* id stack and the box stack as they were before the call
C20_NoIdRejectedCleanly ==
  hookObs.op = "Control" =>
    (threw /\ Len(idStack) = hookObs.ids /\ Len(boundingBoxStack) = hookObs.boxes)

\* ------------------------------------------------------------ the terminal
\* the host has put a cell: the put, whether it lies in the grid, its cell
PutTaken == Len(hostPuts') = Len(hostPuts) + 1
NewPut == hostPuts'[Len(hostPuts')]
PutInGrid(p) == p.x \in 0..(GridW - 1) /\ p.y \in 0..(GridH - 1)
CellOf(p) == p.x + p.y * GridW

\* the host has rendered the terminal
TerminalRendered == hostPuts' = <<>> /\ ~PutTaken

\* the puts of this frame on cell c, and the last of those of highest layer
PutsOn(c) == {k \in 1..Len(hostPuts) : PutInGrid(hostPuts[k]) /\ CellOf(hostPuts[k]) = c}
TopPut(c) ==
  CHOOSE k \in PutsOn(c) :
    \A j \in PutsOn(c) :
      \/ hostPuts[j].pen.layer < hostPuts[k].pen.layer
      \/ hostPuts[j].pen.layer = hostPuts[k].pen.layer /\ j <= k

\* C21: a put on a cell of the grid with a layer at or above the stored one
\* replaces the cell's char, foreground and layer (the new writer wins a
\* tie), a put with a lower layer leaves the cell as it was, and no other
\* cell changes; so within a frame every cell holds the last put among those
\* of highest layer, and the zero cell when nothing was put on it.
C21_LayerRule ==
  /\ [][PutTaken /\ PutInGrid(NewPut) =>
          /\ \A d \in Cells \ {CellOf(NewPut)} : backBuffer'[d] = backBuffer[d]
          /\ IF NewPut.pen.layer >= backBuffer[CellOf(NewPut)].layer
             THEN /\ backBuffer'[CellOf(NewPut)].char = NewPut.pen.char
                  /\ backBuffer'[CellOf(NewPut)].fg = NewPut.pen.fg
                  /\ backBuffer'[CellOf(NewPut)].layer = NewPut.pen.layer
             ELSE backBuffer'[CellOf(NewPut)] = backBuffer[CellOf(NewPut)]]_vars
  /\ [](\A c \in Cells :
          IF PutsOn(c) = {}
          THEN backBuffer[c] = ZeroCell
          ELSE /\ backBuffer[c].char = hostPuts[TopPut(c)].pen.char
               /\ backBuffer[c].fg = hostPuts[TopPut(c)].pen.fg
               /\ backBuffer[c].layer = hostPuts[TopPut(c)].pen.layer)

\* a tie on layer 1 went to the later put, and a put on layer 0 after them
\* changed nothing
C21_Witness ==
  /\ Len(hostPuts) = 3
  /\ \A k \in 1..3 : hostPuts[k].x = 0 /\ hostPuts[k].y = 0
  /\ hostPuts[1].pen.layer = 1 /\ hostPuts[1].pen.char = 65
  /\ hostPuts[2].pen.layer = 1 /\ hostPuts[2].pen.char = 66
  /\ hostPuts[3].pen.layer = 0
  /\ backBuffer[0].char = 66
  /\ backBuffer[0].layer = 1

\* C22: an accepted put without a background (the zero sentinel) leaves the
\* stored background of the cell as it was, and an accepted put with a
\* non-zero background stores that background.
C22_BackgroundSentinel ==
  [][/\ PutTaken
     /\ PutInGrid(NewPut)
     /\ NewPut.pen.layer >= backBuffer[CellOf(NewPut)].layer
     => backBuffer'[CellOf(NewPut)].bg =
          IF NewPut.pen.bg = TRANSPARENT
          THEN backBuffer[CellOf(NewPut)].bg
          ELSE NewPut.pen.bg]_vars

\* a put without a background was accepted on a cell that had one, and the
\* cell has the new char over the old background
C22_Witness ==
  /\ Len(hostPuts) = 2
  /\ hostPuts[1].x = 1 /\ hostPuts[2].x = 1
  /\ hostPuts[1].pen.bg = BLUE
  /\ hostPuts[2].pen.bg = TRANSPARENT
  /\ hostPuts[2].pen.layer = 1
  /\ backBuffer[1] = [char |-> 66, fg |-> RED, bg |-> BLUE, layer |-> 1]

\* the cells whose char, foreground or background differs between the buffers
Changed == {c \in Cells : Shown(backBuffer[c]) # Shown(frontBuffer[c])}

\* C23: Terminal.render() emits six vertices for every cell whose char,
\* foreground or background differs between the back and the front buffer
\* and draws once; when no cell differs (a difference of layer does not
\* count) it emits no vertex, issues no draw and the canvas stays as it was.
C23_VertexCount ==
  [][TerminalRendered =>
       /\ lastDraw'.vertexCount = 6 * Cardinality(Changed)
       /\ lastDraw'.drawArrays = (Cardinality(Changed) > 0)
       /\ (Changed = {} => canvas' = canvas)]_vars

\* a render drew two cells; the front buffer holds them now
C23_Witness ==
  /\ lastDraw.vertexCount = 12
  /\ lastDraw.drawArrays
  /\ frontBuffer[0].char # 0
  /\ frontBuffer[1].char # 0
  /\ hostPuts = <<>>

\* C24: a render leaves in the front buffer the cells the back buffer held
\* and in the back buffer zero cells only; and at all times the canvas shows
\* in every cell the char, foreground and background of the front buffer.
C24_SwapAndClear ==
  /\ [][TerminalRendered =>
          /\ frontBuffer' = backBuffer
          /\ backBuffer' = [c \in Cells |-> ZeroCell]]_vars
  /\ [](\A c \in Cells : canvas[c] = Shown(frontBuffer[c]))

\* after a render the canvas shows a cell that took two puts, an untouched
\* cell beside it, and the back buffer is empty again
C24_Witness ==
  /\ hostPuts = <<>>
  /\ lastDraw.drawArrays
  /\ canvas[0] = [char |-> 66, fg |-> RED, bg |-> BLUE]
  /\ canvas[1] = Shown(ZeroCell)
  /\ frontBuffer[0].layer = 1
  /\ \A c \in Cells : backBuffer[c] = ZeroCell

\* ------------------------------------------------- pointer and keyboard
\* the pointer cell lies in the inclusive rectangle of width w and height h
\* whose corner is (x0, y0)
PointerWithin(x0, y0, w, h) ==
  /\ x0 <= mouse.x /\ mouse.x <= x0 + w - 1
  /\ y0 <= mouse.y /\ mouse.y <= y0 + h - 1

\* the hook has just made the call op and is still running
JustAsked(op) == hookObs.op = op /\ pc = "screens" /\ si >= 1 /\ ~threw

\* C25: isMouseOver(x, y, w, h) answers true exactly when the pointer cell
\* lies in [x0, x0+w-1] x [y0, y0+h-1] with (x0, y0) the origin of the
\* current box plus (x, y), and without arguments it answers for the whole
\* current box.
C25_MouseOverInclusive ==
  /\ (JustAsked("isMouseOver") =>
        hookObs.result = Bool(PointerWithin(box.x + hookObs.x, box.y + hookObs.y,
                                            hookObs.width, hookObs.height)))
  /\ (JustAsked("isMouseOver()") =>
        hookObs.result = Bool(PointerWithin(box.x, box.y, box.width, box.height)))

\* the pointer is on the last column of a rectangle two cells wide, inside a
\* box that does not start at the origin, and the answer is true
C25_Witness ==
  /\ JustAsked("isMouseOver")
  /\ hookObs.width = 2
  /\ box.x > 0
  /\ mouse.x = box.x + hookObs.x + 1
  /\ hookObs.result = "true"

\* C26: isMouseDown() answers, without raising an error, whether button 0 is
\* held: pressed and not released since.
C26_MouseDownAnswers ==
  hookObs.op = "isMouseDown" =>
    /\ ~threw
    /\ hookObs.result = Bool(0 \in mouse.buttons)

\* C27: isKeyDown("Enter"), asked in the pass of the key-down of Enter,
\* answers true.
C27_KeyDownAnswers ==
  /\ hookObs.op = "isKeyDown"
  /\ event # NoEvent
  /\ event.type = "keydown"
  /\ event.key = "Enter"
  => hookObs.result = "true"

\* ---------------------------------------------------------- ids and hover
\* C28: the qualified id is the id stack joined with "/" in every state,
\* the initial one included.
C28_IdJoined == currentId = Join(idStack)

\* the hooks of the pass have all run
PassEnded == PassRan /\ (pc = "screens" => si = 0)

\* C29: when the pointer cell is inside the rectangles of several
\* interactive controls rendered in a pass, hover at the end of the pass is
\* the id of the one of them that was rendered last, whatever its screen.
C29_LastRenderedHovers ==
  PassEnded =>
    \A k \in 1..Len(ctlLog) :
      (/\ ctlLog[k].over
       /\ \E j \in 1..(k - 1) : ctlLog[j].over
       /\ \A j \in (k + 1)..Len(ctlLog) : ~ctlLog[j].over)
      => hover = ctlLog[k].id

\* the pointer is inside two controls; the one rendered last sits on a lower
\* screen than the other and has hover
C29_Witness ==
  /\ PassEnded
  /\ \E j \in 1..Len(ctlLog) : \E k \in (j + 1)..Len(ctlLog) :
       /\ ctlLog[j].over /\ ctlLog[k].over
       /\ \A m \in (k + 1)..Len(ctlLog) : ~ctlLog[m].over
       /\ ScreenOf(ctlLog[k].id) < ScreenOf(ctlLog[j].id)
       /\ hover = ctlLog[k].id

\* C30: a control that has hover after it was rendered has the pointer cell
\* inside every clip rect that was active when it was rendered, the outer
\* ones of nested clips included.
C30_HoverInsideEveryClip ==
  JustAsked("Control(p)") /\ hover = "p" =>
    \A k \in 1..Len(clipRectStack) : isPointInRect(mouse.x, mouse.y, clipRectStack[k])

\* ------------------------------------------------ press, release and focus
\* C32: when the dispatch of a mouseup returns (some control of its pass saw
\* the mouseup and render() did not raise), active is null.
C32_ReleaseClearsActive ==
  (/\ DispatchOver
   /\ ~threw
   /\ \E k \in 1..Len(ctlLog) : ctlLog[k].type = "mouseup")
  => active = Null

\* C35: in the pass of a mousedown at most one control finds itself active
\* in its callback.
C35_OneActiveObserver ==
  PassEnded =>
    Cardinality({k \in 1..Len(ctlLog) :
                   ctlLog[k].type = "mousedown" /\ ctlLog[k].clicked}) <= 1

\* C37: after focusNextControl or focusPreviousControl on a non-empty
\* focusable list, focus is an id of the list, whatever it was before.
C37_FocusStaysInList ==
  (focusOp # "none" /\ Len(focusableControlIds) > 0) =>
    InList(focusableControlIds, focus)

\* C38: when a dispatch returns, the current event of the UI is null.
C38_EventClearedOnReturn == DispatchOver => event = NoEvent

C40_MouseOverIsHalfOpenTest ==
  JustAsked("isMouseOver") =>
    hookObs.result = Bool(isPointInRect(mouse.x, mouse.y,
                                        [x |-> box.x + hookObs.x,
                                         y |-> box.y + hookObs.y,
                                         width |-> hookObs.width,
                                         height |-> hookObs.height]))

\* the hook asked about a rect without width whose corner is the pointer
\* cell, under a box that does not start at the origin: the answer is false
C40_Witness ==
  /\ JustAsked("isMouseOver")
  /\ hookObs.width = 0
  /\ box.x > 0
  /\ mouse.x = box.x + hookObs.x
  /\ mouse.y = box.y + hookObs.y
  /\ hookObs.result = "false"

\* ------------------------------------------------------------------ Input
\* the pass of the running call rendered the focused Input with the key-down
\* of Enter
EnterOnInput ==
  \E k \in 1..Len(ctlLog) :
    /\ ctlLog[k].id = "i" /\ ctlLog[k].focusWas = "i"
    /\ ctlLog[k].type = "keydown" /\ ctlLog[k].key = "Enter"

\* C31: the dispatch of an Enter key-down on the focused Input ends without
\* an error, with the event consumed, focus on the next focusable control, a
\* second pass and the frame flushed.
C31_EnterMovesFocus ==
  (pc = "done" /\ EnterOnInput) =>
    /\ ~threw
    /\ event = NoEvent
    /\ focus = "s"
    /\ passes = 2
    /\ flushes = 1

\* ------------------------------------------------- hover, layers, clicks
\* C33: at the end of every pass hover is null or the id of a control that
\* the pass rendered interactive with the pointer cell inside it.
C33_HoverIsLive ==
  PassEnded =>
    \/ hover = Null
    \/ \E k \in 1..Len(ctlLog) : ctlLog[k].id = hover /\ ctlLog[k].over

\* C34: when the menu and the main screen have both written their label on
\* the same cell with the same layer in one pass, the cell holds the label
\* of the menu, the screen higher on the stack.
C34_HigherScreenOnTop ==
  (pc = "screens" /\ si = 0 /\ Len(screens) = 2 /\ Len(hookLog) = 2) =>
    backBuffer[0].char = Hook("Menu")[1].label

\* C36: in a pass caused by a move of the pointer while the mouse button is
\* held, no button returns clicked = true again.
C36_ClickedOncePerPress ==
  \A k \in 1..Len(ctlLog) :
    (ctlLog[k].type = "mousemove" /\ mouse.down) => ~ctlLog[k].clicked

====
